---- MODULE Spec2Model ----
(***************************************************************************)
(* Model of the ATS experiment runner (src/experiment_runner.py) and of    *)
(* the analyzer's per-profile aggregation (src/analyzer.py).               *)
(*                                                                         *)
(* Response texts are sequences of characters.  Python indices are         *)
(* 0-based, so the character Python calls s[i] is s[i + 1] here; every     *)
(* string operator below takes and returns Python indices.                 *)
(***************************************************************************)
EXTENDS Integers, Sequences, FiniteSets, TLC

\* ------------------------------------------------------------------ bounds
\* tokens of a response text
MaxTokens == 5
\* evaluations of one run: len(profiles) * iterations_per_config
MaxEvaluations == 4
\* the largest max_concurrent
MaxConcurrent == 2

\* ------------------------------------------------------- response alphabet
\* "BT" stands for one backtick character and "T" for the member text
\* "total_score": 80  of a JSON object; all other characters stand for
\* themselves ("x" for any character that is not part of JSON, of a fence
\* or of the tag).
Fence == <<"BT", "BT", "BT">>
JsonFence == <<"BT", "BT", "BT", "j", "s", "o", "n">>
Tokens == {Fence, <<"j", "s", "o", "n">>, <<"{", "T", "}">>, <<"5">>, <<" ">>, <<"x">>}

RECURSIVE Flatten(_)
Flatten(ts) == IF ts = <<>> THEN <<>> ELSE Head(ts) \o Flatten(Tail(ts))

Texts == {Flatten(ts) : ts \in UNION {[1..n -> Tokens] : n \in 0..MaxTokens}}

\* ------------------------------------------------------ Python str methods
IsSpace(c) == c = " "

RECURSIVE LStrip(_)
LStrip(s) == IF s # <<>> /\ IsSpace(Head(s)) THEN LStrip(Tail(s)) ELSE s

RECURSIVE RStrip(_)
RStrip(s) ==
  IF s # <<>> /\ IsSpace(s[Len(s)]) THEN RStrip(SubSeq(s, 1, Len(s) - 1)) ELSE s

Strip(s) == RStrip(LStrip(s))

\* sub occurs in s at Python index i
OccursAt(s, sub, i) ==
  /\ i >= 0
  /\ i + Len(sub) <= Len(s)
  /\ \A k \in 1..Len(sub) : s[i + k] = sub[k]

\* s.find(sub, start): the lowest index >= start where sub occurs, else -1
FindFrom(s, sub, start) ==
  LET hits == {i \in start..Len(s) : OccursAt(s, sub, i)}
  IN IF hits = {} THEN -1 ELSE CHOOSE i \in hits : \A j \in hits : i <= j

Find(s, sub) == FindFrom(s, sub, 0)

\* sub in s
Contains(s, sub) == \E i \in 0..Len(s) : OccursAt(s, sub, i)

\* s[a:b] with the Python treatment of negative and out-of-range indices
NormIndex(s, i) ==
  LET j == IF i < 0 THEN i + Len(s) ELSE i
  IN IF j < 0 THEN 0 ELSE IF j > Len(s) THEN Len(s) ELSE j

Slice(s, a, b) ==
  LET lo == NormIndex(s, a)
      hi == NormIndex(s, b)
  IN IF lo >= hi THEN <<>> ELSE SubSeq(s, lo + 1, hi)

\* ------------------------------------------------------------- json.loads
\* JSON values: an object is its list of (key, value) members in document
\* order, a number is its value.
JsonObject(members) == [type |-> "object", members |-> members]
JsonNumber(n) == [type |-> "number", value |-> n]
JsonBoolean(b) == [type |-> "boolean", value |-> b]
JsonNull == [type |-> "null"]

RECURSIVE DecimalValue(_)
DecimalValue(s) ==
  IF s = <<>> THEN 0 ELSE 10 * DecimalValue(SubSeq(s, 1, Len(s) - 1)) + 5

NoSpace(s) == SelectSeq(s, LAMBDA c : ~IsSpace(c))

Raised(type) == [raised |-> TRUE, exc |-> [type |-> type, msg |-> type]]
Returned(v) == [raised |-> FALSE, value |-> v]

\* json.loads(s): whitespace around the document and between the tokens of
\* an object is skipped; anything else that is not a JSON document raises.
JsonLoads(s) ==
  LET t == Strip(s)
  IN IF t # <<>> /\ \A k \in 1..Len(t) : t[k] = "5"
       THEN Returned(JsonNumber(DecimalValue(t)))
     ELSE IF NoSpace(t) = <<"{", "}">>
       THEN Returned(JsonObject(<<>>))
     ELSE IF NoSpace(t) = <<"{", "T", "}">>
       THEN Returned(JsonObject(<< <<"total_score", JsonNumber(80)>> >>))
     ELSE Raised("JSONDecodeError")

\* -------------------------------------------------- the external service
\* What ollama.chat can do: raise, answer without message content, or
\* answer with a text.
ServiceErrors == {"ResponseError", "ConnectionError"}

\* Exception types that derive from Exception
ExceptionTypes ==
  ServiceErrors \cup {"KeyError", "JSONDecodeError", "AttributeError", "ZeroDivisionError"}

CallRaises(type) == [kind |-> "raise", exc |-> [type |-> type, msg |-> type]]
CallNoContent == [kind |-> "nocontent"]
CallText(text) == [kind |-> "text", content |-> text]

\* ------------------------------------------------------------- profiles
ProfileInfo(p) == [id |-> p, description |-> <<"description", p>>]

\* ------------------------------------------------- run_single_evaluation
\* The candidate payload when the fenced block is looked for before the
\* tagged one
ExtractJsonText_FenceFirst(response_text) ==
  IF Contains(response_text, Fence)
    THEN LET json_start == Find(response_text, Fence) + 3
             json_end == FindFrom(response_text, Fence, json_start)
         IN Strip(Slice(response_text, json_start, json_end))
  ELSE response_text

\* The candidate payload of a (stripped) response text.
ExtractJsonText(response_text) ==
  IF Contains(response_text, JsonFence)
    THEN LET json_start == Find(response_text, JsonFence) + 7
             json_end == FindFrom(response_text, Fence, json_start)
         IN Strip(Slice(response_text, json_start, json_end))
  ELSE IF Contains(response_text, Fence)
    THEN LET json_start == Find(response_text, Fence) + 3
             json_end == FindFrom(response_text, Fence, json_start)
         IN Strip(Slice(response_text, json_start, json_end))
  ELSE response_text

\* response['message']['content'].strip()
ResponseText(call) ==
  IF call.kind = "raise" THEN [raised |-> TRUE, exc |-> call.exc]
  ELSE IF call.kind = "nocontent" THEN Raised("KeyError")
  ELSE Returned(Strip(call.content))

\* json_text of an evaluation: what json.loads is called with, when the call
\* returned a text
JsonText(call) ==
  LET text == ResponseText(call)
  IN IF text.raised THEN text ELSE Returned(ExtractJsonText(text.value))

\* except Exception as e
ExceptCatches_ServiceOnly(exc) == exc.type \in ServiceErrors

ExceptCatches(exc) == exc.type \in ExceptionTypes

\* The try block of run_single_evaluation_async
TryEvaluationAsync(call, profile_info, iteration) ==
  LET text == ResponseText(call)
  IN IF text.raised THEN text
     ELSE LET scores == JsonLoads(ExtractJsonText(text.value))
          IN IF scores.raised THEN scores
             ELSE Returned([success |-> TRUE,
                            scores |-> scores.value,
                            profile_id |-> profile_info.id,
                            profile_description |-> profile_info.description,
                            iteration |-> iteration,
                            raw_response |-> text.value])

\* str(e)
Str(exc) == exc.msg

RunSingleEvaluationAsync(call, profile_info, iteration) ==
  LET r == TryEvaluationAsync(call, profile_info, iteration)
  IN IF r.raised /\ ExceptCatches(r.exc)
       THEN Returned([success |-> FALSE,
                      error |-> Str(r.exc),
                      profile_id |-> profile_info.id,
                      profile_description |-> profile_info.description,
                      iteration |-> iteration])
       ELSE r

\* The try block of the synchronous run_single_evaluation
TryEvaluation(call, profile_info) ==
  LET text == ResponseText(call)
  IN IF text.raised THEN text
     ELSE LET scores == JsonLoads(ExtractJsonText(text.value))
          IN IF scores.raised THEN scores
             ELSE Returned([success |-> TRUE,
                            scores |-> scores.value,
                            profile_id |-> profile_info.id,
                            profile_description |-> profile_info.description,
                            raw_response |-> text.value])

RunSingleEvaluation(call, profile_info) ==
  LET r == TryEvaluation(call, profile_info)
  IN IF r.raised /\ ExceptCatches(r.exc)
       THEN Returned([success |-> FALSE,
                      error |-> Str(r.exc),
                      profile_id |-> profile_info.id,
                      profile_description |-> profile_info.description])
       ELSE r

\* ------------------------------------------------------------------ state
VARIABLES
  iterations_per_config,  \* self.iterations_per_config
  max_concurrent,         \* self.max_concurrent
  verbose,                \* the verbose argument of the run
  async_mode,             \* run_all_experiments_async or run_all_experiments
  profiles,               \* the list of subjects of the run
  pc,                     \* position of the runner
  idx,                    \* index in profiles of the subject being run
  iteration,              \* loop variable of run_profile_experiment
  semaphore,              \* value of the semaphore of the current dispatch
  task,                   \* task[p][i]: position of bounded_evaluation(i)
  result,                 \* result[p][i]: what bounded_evaluation(i) ended with
  dispatcher,             \* dispatcher[p]: state of the dispatch of subject p
  profile_results,        \* profile_results[p]: list built for subject p
  all_results,            \* all_results of the runner
  experiment_data,        \* the value the runner returned
  aggregated,             \* what aggregate_by_profile ended with
  overtaken,              \* history: overtaken[p] once a task of subject p
                          \* completed before a task created earlier
  call,                   \* single evaluation: what the external call did
  outcome,                \* single evaluation: run_single_evaluation_async
  outcome_sync,           \* single evaluation: run_single_evaluation
  json_text,              \* single evaluation: the text handed to json.loads
  stalled,                \* the task whose external call never returns, if any
  aggregated_again,       \* what a second aggregate_by_profile ended with
  threshold,              \* the threshold argument of detect_discrimination
  discrimination,         \* what detect_discrimination ended with
  report,                 \* what generate_report ended with
  service,                \* what the external call of each task ends with,
                          \* where the service is a function of the attempt
  sync_data               \* the value run_all_experiments returned, kept to
                          \* compare it with the asynchronous run

config_vars == <<iterations_per_config, max_concurrent, verbose, async_mode, profiles,
                 stalled, service>>
runner_vars == <<pc, idx, iteration, semaphore, task, result, dispatcher,
                 profile_results, all_results, experiment_data, aggregated,
                 overtaken>>
eval_vars == <<call, outcome, outcome_sync, json_text>>
analysis_vars == <<aggregated_again, threshold, discrimination, report, sync_data>>
vars == <<config_vars, runner_vars, eval_vars, analysis_vars>>

NoResult == [pending |-> TRUE, raised |-> FALSE, value |-> [pending |-> TRUE]]
IsPending(r) == "pending" \in DOMAIN r
NoCall == [kind |-> "none"]
NoData == [returned |-> FALSE]
NoTask == <<0, 0>>
NoService == <<>>

\* the default of the threshold parameter of detect_discrimination
DefaultThreshold == 5

Range(n) == 0..(n - 1)
ProfileIndexes == 1..Len(profiles)

\* What the external service does in a run: raise, an unparseable text, a
\* fenced object, a bare number.
ServiceCalls ==
  { CallRaises("ConnectionError"),
    CallText(<<"x">>),
    CallText(JsonFence \o <<"{", "T", "}">> \o Fence),
    CallText(<<"5">>) }

\* ---------------------------------------------------------- configuration
ConfigInit ==
  /\ iterations_per_config \in 0..MaxEvaluations
  /\ max_concurrent \in 1..MaxConcurrent
  /\ verbose \in BOOLEAN
  /\ async_mode \in BOOLEAN
  /\ profiles \in {[k \in 1..n |-> k] : n \in 0..MaxEvaluations}
  /\ Len(profiles) * iterations_per_config <= MaxEvaluations

RunnerInit ==
  /\ pc = "loop"
  /\ idx = 1
  /\ iteration = 0
  /\ semaphore = 0
  /\ task = [p \in ProfileIndexes |-> [i \in Range(iterations_per_config) |-> "notcreated"]]
  /\ result = [p \in ProfileIndexes |-> [i \in Range(iterations_per_config) |-> NoResult]]
  /\ dispatcher = [p \in ProfileIndexes |-> "idle"]
  /\ profile_results = [p \in ProfileIndexes |-> <<>>]
  /\ all_results = <<>>
  /\ experiment_data = NoData
  /\ aggregated = NoResult
  /\ overtaken = [p \in ProfileIndexes |-> FALSE]

\* nothing analysed yet
AnalysisInit ==
  /\ sync_data = NoData
  /\ aggregated_again = NoResult
  /\ discrimination = NoResult
  /\ report = NoResult

Init ==
  /\ ConfigInit
  /\ stalled = NoTask
  /\ service = NoService
  /\ RunnerInit
  /\ call = NoCall
  /\ outcome = NoResult
  /\ outcome_sync = NoResult
  /\ json_text = NoResult
  /\ threshold = DefaultThreshold
  /\ AnalysisInit

\* ------------------------------------------ run_profile_experiment_async
\* result["scores"].get("total_score", "N/A") in the verbose branch: only a
\* dict has get
PrintRaises(res) == verbose /\ res.success /\ res.scores.type # "object"

\* the tasks of subject p inside the async with block, and those before it
InFlight(p) == {i \in DOMAIN task[p] : task[p][i] = "calling"}
Waiting(p) == {i \in DOMAIN task[p] : task[p][i] = "waiting"}

\* asyncio.Semaphore: acquire proceeds while the value is positive
SemaphoreFree_Unbounded(value) == value >= 0

SemaphoreFree(value) == value > 0

\* the iteration number handed to run_single_evaluation_async
IterationArg(i) == i + 1

\* bounded_evaluation(i) from the completion of the external call on
BoundedEvaluation(c, p, i) ==
  LET r == RunSingleEvaluationAsync(c, ProfileInfo(profiles[p]), IterationArg(i))
  IN IF r.raised THEN r
     ELSE IF PrintRaises(r.value) THEN Raised("AttributeError")
     ELSE r

\* asyncio.gather(*tasks) is done
GatherDone_Any(p) == \E i \in DOMAIN task[p] : task[p][i] = "returned"

GatherDone(p) == \A i \in DOMAIN task[p] : task[p][i] = "returned"

\* the list asyncio.gather returns: one entry per awaitable, in the order
\* of the awaitables
GatherResults_Reversed(p) ==
  [k \in 1..iterations_per_config |-> result[p][iterations_per_config - k].value]

GatherResults(p) ==
  [k \in 1..iterations_per_config |-> result[p][k - 1].value]

\* Entry of run_profile_experiment_async: the semaphore and the tasks
StartProfileAsync ==
  /\ pc = "loop"
  /\ async_mode
  /\ idx <= Len(profiles)
  /\ semaphore' = max_concurrent
  /\ task' = [task EXCEPT ![idx] = [i \in Range(iterations_per_config) |-> "waiting"]]
  /\ dispatcher' = [dispatcher EXCEPT ![idx] = "gathering"]
  /\ pc' = "gather"
  /\ UNCHANGED <<idx, iteration, result, profile_results, all_results, experiment_data, aggregated>>
  /\ UNCHANGED <<config_vars, eval_vars, analysis_vars, overtaken>>

\* async with semaphore: a waiting task takes a slot and issues its call
Acquire(i) ==
  /\ idx \in ProfileIndexes
  /\ i \in DOMAIN task[idx]
  /\ task[idx][i] = "waiting"
  /\ SemaphoreFree(semaphore)
  /\ semaphore' = semaphore - 1
  /\ task' = [task EXCEPT ![idx][i] = "calling"]
  /\ UNCHANGED <<pc, idx, iteration, result, dispatcher, profile_results,
                 all_results, experiment_data, aggregated>>
  /\ UNCHANGED <<config_vars, eval_vars, analysis_vars, overtaken>>

\* asyncio.Semaphore.release, called once when the async with block is left
SemaphoreRelease_Twice(value) == value + 2

SemaphoreRelease(value) == value + 1

\* The external call of task i ends with c; the task runs to its end and
\* leaves the async with block, which releases the slot
Complete(i, c) ==
  /\ idx \in ProfileIndexes
  /\ i \in DOMAIN task[idx]
  /\ task[idx][i] = "calling"
  /\ <<idx, i>> # stalled
  /\ LET r == BoundedEvaluation(c, idx, i)
     IN /\ result' = [result EXCEPT ![idx][i] = r]
        /\ task' = [task EXCEPT ![idx][i] = IF r.raised THEN "raised" ELSE "returned"]
  /\ semaphore' = SemaphoreRelease(semaphore)
  /\ overtaken' = [overtaken EXCEPT ![idx] =
                     @ \/ \E j \in DOMAIN task[idx] :
                            j < i /\ task[idx][j] \in {"waiting", "calling"}]
  /\ UNCHANGED <<pc, idx, iteration, dispatcher, profile_results,
                 all_results, experiment_data, aggregated>>
  /\ UNCHANGED <<config_vars, eval_vars, analysis_vars>>

\* gather propagates the exception of a task to run_profile_experiment_async
\* and from there, uncaught, through run_all_experiments_async
GatherRaises ==
  /\ pc = "gather"
  /\ \E i \in DOMAIN task[idx] : task[idx][i] = "raised"
  /\ dispatcher' = [dispatcher EXCEPT ![idx] = "raised"]
  /\ pc' = "raised"
  /\ UNCHANGED <<idx, iteration, semaphore, task, result, profile_results,
                 all_results, experiment_data, aggregated>>
  /\ UNCHANGED <<config_vars, eval_vars, analysis_vars, overtaken>>

\* asyncio.run after the main coroutine ended with the exception: the tasks
\* that are not done are cancelled; a task cancelled inside the async with
\* block leaves it and releases its slot, a task cancelled while it waits
\* for a slot never issues its call
CancelRemaining ==
  /\ pc = "raised"
  /\ async_mode
  /\ idx \in ProfileIndexes
  /\ InFlight(idx) \cup Waiting(idx) # {}
  /\ task' = [task EXCEPT ![idx] =
                [i \in DOMAIN task[idx] |->
                   IF task[idx][i] \in {"waiting", "calling"} THEN "cancelled"
                                                             ELSE task[idx][i]]]
  /\ semaphore' = semaphore + Cardinality(InFlight(idx))
  /\ UNCHANGED <<pc, idx, iteration, result, dispatcher, profile_results,
                 all_results, experiment_data, aggregated>>
  /\ UNCHANGED <<config_vars, eval_vars, analysis_vars, overtaken>>

\* all_results.extend(profile_results)
Extend_Prepend(results, more) == more \o results

Extend(results, more) == results \o more

\* gather returns, run_profile_experiment_async returns the list and the
\* runner extends all_results with it
GatherReturns ==
  /\ pc = "gather"
  /\ GatherDone(idx)
  /\ profile_results' = [profile_results EXCEPT ![idx] = GatherResults(idx)]
  /\ dispatcher' = [dispatcher EXCEPT ![idx] = "returned"]
  /\ all_results' = Extend(all_results, GatherResults(idx))
  /\ idx' = idx + 1
  /\ pc' = "loop"
  /\ UNCHANGED <<iteration, semaphore, task, result, experiment_data, aggregated>>
  /\ UNCHANGED <<config_vars, eval_vars, analysis_vars, overtaken>>

\* -------------------------------------------- run_all_experiments_async
Metadata_CountProfiles ==
  [iterations_per_config |-> iterations_per_config,
   total_profiles |-> Len(profiles),
   total_evaluations |-> Len(profiles)]

Metadata ==
  [iterations_per_config |-> iterations_per_config,
   total_profiles |-> Len(profiles),
   total_evaluations |-> Len(all_results)]

ExperimentData == [returned |-> TRUE, metadata |-> Metadata, results |-> all_results]

\* After the loop over the profiles: experiment_data is built; the verbose
\* summary divides the duration by len(all_results)
FinishAsync ==
  /\ pc = "loop"
  /\ async_mode
  /\ idx > Len(profiles)
  /\ IF verbose /\ Len(all_results) = 0
       THEN pc' = "raised" /\ UNCHANGED experiment_data
       ELSE pc' = "done" /\ experiment_data' = ExperimentData
  /\ UNCHANGED <<idx, iteration, semaphore, task, result, dispatcher,
                 profile_results, all_results, aggregated>>
  /\ UNCHANGED <<config_vars, eval_vars, analysis_vars, overtaken>>

\* ------------------------------------------------ run_profile_experiment
StartProfileSync ==
  /\ pc = "loop"
  /\ ~async_mode
  /\ idx <= Len(profiles)
  /\ profile_results' = [profile_results EXCEPT ![idx] = <<>>]
  /\ iteration' = 0
  /\ dispatcher' = [dispatcher EXCEPT ![idx] = "running"]
  /\ pc' = "iterate"
  /\ UNCHANGED <<idx, semaphore, task, result, all_results, experiment_data, aggregated>>
  /\ UNCHANGED <<config_vars, eval_vars, analysis_vars, overtaken>>

\* result["iteration"] = iteration + 1
WithIteration(res, n) ==
  [k \in DOMAIN res \cup {"iteration"} |-> IF k = "iteration" THEN n ELSE res[k]]

\* One pass of the loop of run_profile_experiment, the external call ending
\* with c
SyncIteration(c) ==
  /\ pc = "iterate"
  /\ iteration < iterations_per_config
  /\ LET r == RunSingleEvaluation(c, ProfileInfo(profiles[idx]))
     IN IF r.raised
          THEN /\ pc' = "raised"
               /\ dispatcher' = [dispatcher EXCEPT ![idx] = "raised"]
               /\ UNCHANGED <<profile_results, iteration>>
          ELSE LET res == WithIteration(r.value, iteration + 1)
               IN /\ profile_results' =
                       [profile_results EXCEPT ![idx] = Append(@, res)]
                  /\ IF PrintRaises(res)
                       THEN /\ pc' = "raised"
                            /\ dispatcher' = [dispatcher EXCEPT ![idx] = "raised"]
                            /\ UNCHANGED iteration
                       ELSE /\ iteration' = iteration + 1
                            /\ UNCHANGED <<pc, dispatcher>>
  /\ UNCHANGED <<idx, semaphore, task, result, all_results, experiment_data, aggregated>>
  /\ UNCHANGED <<config_vars, eval_vars, analysis_vars, overtaken>>

\* run_profile_experiment returns and the runner extends all_results
SyncProfileReturns ==
  /\ pc = "iterate"
  /\ iteration = iterations_per_config
  /\ dispatcher' = [dispatcher EXCEPT ![idx] = "returned"]
  /\ all_results' = Extend(all_results, profile_results[idx])
  /\ idx' = idx + 1
  /\ pc' = "loop"
  /\ UNCHANGED <<iteration, semaphore, task, result, profile_results,
                 experiment_data, aggregated>>
  /\ UNCHANGED <<config_vars, eval_vars, analysis_vars, overtaken>>

\* ---------------------------------------------------- run_all_experiments
FinishSync ==
  /\ pc = "loop"
  /\ ~async_mode
  /\ idx > Len(profiles)
  /\ pc' = "done"
  /\ experiment_data' = ExperimentData
  /\ UNCHANGED <<idx, iteration, semaphore, task, result, dispatcher,
                 profile_results, all_results, aggregated>>
  /\ UNCHANGED <<config_vars, eval_vars, analysis_vars, overtaken>>

\* ------------------------------------------------- aggregate_by_profile
\* profile_data and aggregated are dicts: here lists of entries in the
\* order in which the keys were first inserted.
\* isinstance(score_value, (int, float)): bool is a subclass of int
IsNumeric(v) == v.type \in {"number", "boolean"}

\* the value a collected score counts as: True is 1 and False is 0
AsNumber(v) == IF v.type = "boolean" THEN (IF v.value THEN 1 ELSE 0) ELSE v.value

\* the default entry of profile_data
NewProfileData(profile_id) ==
  [profile_id |-> profile_id,
   iterations |-> <<>>,
   scores |-> <<>>,
   description |-> <<>>,
   success_count |-> 0,
   error_count |-> 0]

IndexOf(entries, key, field) ==
  IF \E k \in 1..Len(entries) : entries[k][field] = key
    THEN CHOOSE k \in 1..Len(entries) : entries[k][field] = key
    ELSE 0

\* scores[score_key].append(score_value) on a defaultdict(list)
AppendScore(scores, score_key, score_value) ==
  LET k == IndexOf(scores, score_key, "name")
  IN IF k = 0
       THEN Append(scores, [name |-> score_key, values |-> <<score_value>>])
       ELSE [scores EXCEPT ![k].values = Append(@, score_value)]

\* for score_key, score_value in scores.items(): collect the numeric ones
RECURSIVE CollectScores(_, _)
CollectScores(scores, members) ==
  IF members = <<>> THEN scores
  ELSE LET m == Head(members)
       IN CollectScores(IF IsNumeric(m[2]) THEN AppendScore(scores, m[1], AsNumber(m[2]))
                                           ELSE scores,
                        Tail(members))

\* the description kept for a profile: the first non-empty one
StoreDescription(d, res) ==
  IF d.description = <<>> THEN [d EXCEPT !.description = res.profile_description] ELSE d

\* One pass of the loop over self.results
AggregateResult_SkipFailures(profile_data, res) ==
  LET k0 == IndexOf(profile_data, res.profile_id, "profile_id")
      data == IF k0 = 0 THEN Append(profile_data, NewProfileData(res.profile_id))
                        ELSE profile_data
      k == IndexOf(data, res.profile_id, "profile_id")
      d == data[k]
  IN IF res.success
       THEN IF res.scores.type # "object"
              THEN Raised("AttributeError")
              ELSE Returned([data EXCEPT ![k] = StoreDescription(
                     [d EXCEPT !.success_count = @ + 1,
                               !.scores = CollectScores(@, res.scores.members),
                               !.iterations = Append(@, res)], res)])
       ELSE Returned(data)

AggregateResult(profile_data, res) ==
  LET k0 == IndexOf(profile_data, res.profile_id, "profile_id")
      data == IF k0 = 0 THEN Append(profile_data, NewProfileData(res.profile_id))
                        ELSE profile_data
      k == IndexOf(data, res.profile_id, "profile_id")
      d == data[k]
  IN IF res.success
       THEN IF res.scores.type # "object"
              THEN Raised("AttributeError")
              ELSE Returned([data EXCEPT ![k] = StoreDescription(
                     [d EXCEPT !.success_count = @ + 1,
                               !.scores = CollectScores(@, res.scores.members),
                               !.iterations = Append(@, res)], res)])
       ELSE Returned([data EXCEPT ![k] = StoreDescription(
                     [d EXCEPT !.error_count = @ + 1], res)])

RECURSIVE AggregateLoop(_, _)
AggregateLoop(profile_data, results) ==
  IF results = <<>> THEN Returned(profile_data)
  ELSE LET step == AggregateResult(profile_data, Head(results))
       IN IF step.raised THEN step ELSE AggregateLoop(step.value, Tail(results))

\* the stats entry of one profile; a score keeps its values list, of which
\* mean, median, stdev, min and max are functions
ProfileStats(data) ==
  [profile_id |-> data.profile_id,
   description |-> data.description,
   total_iterations |-> Len(data.iterations),
   success_count |-> data.success_count,
   error_count |-> data.error_count,
   scores |-> data.scores]

AggregateByProfile(results) ==
  LET profile_data == AggregateLoop(<<>>, results)
  IN IF profile_data.raised THEN profile_data
     ELSE Returned([k \in 1..Len(profile_data.value) |-> ProfileStats(profile_data.value[k])])

\* ------------------------------------------------ detect_discrimination
\* A mean is kept exact, as the sum of the values over their number
RECURSIVE Sum(_)
Sum(values) == IF values = <<>> THEN 0 ELSE Head(values) + Sum(Tail(values))

\* statistics.mean(values)
Mean(values) == [num |-> Sum(values), den |-> Len(values)]

Less(a, b) == a.num * b.den < b.num * a.den

Minus(a, b) == [num |-> a.num * b.den - b.num * a.den, den |-> a.den * b.den]

\* abs(x)
Abs(q) == IF q.num < 0 THEN [q EXCEPT !.num = 0 - q.num] ELSE q

\* diff > threshold
Exceeds_OrEqual(q, t) == q.num >= t * q.den

Exceeds(q, t) == q.num > t * q.den

\* round(x, 2) of x >= 0, in hundredths; a tie goes to the even neighbour
Round2(q) ==
  LET n == 100 * q.num
      f == n \div q.den
      twice == 2 * (n % q.den)
  IN IF twice < q.den THEN f
     ELSE IF twice > q.den THEN f + 1
     ELSE IF f % 2 = 0 THEN f ELSE f + 1

\* data["scores"].get("total_score") is a non-empty statistics dict
HasTotalScore(data) == IndexOf(data.scores, "total_score", "name") # 0

\* total_score_data["mean"]
TotalScoreMean(data) ==
  Mean(data.scores[IndexOf(data.scores, "total_score", "name")].values)

\* profile_scores: the subjects with a total_score statistic, in the order
\* of the aggregates
ProfileScores_DefaultZero(aggregates) ==
  [k \in 1..Len(aggregates) |->
     [profile_id |-> aggregates[k].profile_id,
      mean |-> IF HasTotalScore(aggregates[k]) THEN TotalScoreMean(aggregates[k])
                                                ELSE [num |-> 0, den |-> 1],
      description |-> aggregates[k].description]]

ProfileScores(aggregates) ==
  LET usable == SelectSeq(aggregates, HasTotalScore)
  IN [k \in 1..Len(usable) |->
        [profile_id |-> usable[k].profile_id,
         mean |-> TotalScoreMean(usable[k]),
         description |-> usable[k].description]]

\* if not profile_scores
NothingToAnalyze_FewerThanTwo(profile_scores) == Len(profile_scores) < 2

NothingToAnalyze(profile_scores) == profile_scores = <<>>

\* max(profile_scores.items(), key=mean): the first entry of maximal mean
MaxProfile_Last(ps) ==
  ps[CHOOSE k \in 1..Len(ps) :
       /\ \A j \in 1..Len(ps) : ~Less(ps[k].mean, ps[j].mean)
       /\ \A j \in (k + 1)..Len(ps) : Less(ps[j].mean, ps[k].mean)]

MaxProfile(ps) ==
  ps[CHOOSE k \in 1..Len(ps) :
       /\ \A j \in 1..Len(ps) : ~Less(ps[k].mean, ps[j].mean)
       /\ \A j \in 1..(k - 1) : Less(ps[j].mean, ps[k].mean)]

\* min(profile_scores.items(), key=mean): the first entry of minimal mean
MinProfile(ps) ==
  ps[CHOOSE k \in 1..Len(ps) :
       /\ \A j \in 1..Len(ps) : ~Less(ps[j].mean, ps[k].mean)
       /\ \A j \in 1..(k - 1) : Less(ps[k].mean, ps[j].mean)]

\* for i, profile_a in enumerate(profile_ids): for profile_b in
\* profile_ids[i+1:]: the index pairs visited, in order
RECURSIVE PairsFrom_WithSelf(_, _, _)
PairsFrom_WithSelf(i, j, n) ==
  IF i > n THEN <<>>
  ELSE IF j > n THEN PairsFrom_WithSelf(i + 1, i + 1, n)
  ELSE << <<i, j>> >> \o PairsFrom_WithSelf(i, j + 1, n)

RECURSIVE PairsFrom(_, _, _)
PairsFrom(i, j, n) ==
  IF i > n THEN <<>>
  ELSE IF j > n THEN PairsFrom(i + 1, i + 2, n)
  ELSE << <<i, j>> >> \o PairsFrom(i, j + 1, n)

\* the entry appended to comparisons for profile_a, profile_b
Comparison(a, b, t) ==
  LET diff == Abs(Minus(a.mean, b.mean))
  IN [profile_a |-> a.profile_id,
      profile_a_desc |-> a.description,
      profile_a_score |-> Round2(a.mean),
      profile_b |-> b.profile_id,
      profile_b_desc |-> b.description,
      profile_b_score |-> Round2(b.mean),
      difference |-> Round2(diff),
      potential_discrimination |-> Exceeds(diff, t)]

\* comparisons.sort(key=difference, reverse=True): stable, largest first
RECURSIVE InsertByDifference_Unstable(_, _)
InsertByDifference_Unstable(sorted, c) ==
  IF sorted = <<>> THEN <<c>>
  ELSE IF Head(sorted).difference > c.difference
    THEN <<Head(sorted)>> \o InsertByDifference_Unstable(Tail(sorted), c)
  ELSE <<c>> \o sorted

RECURSIVE InsertByDifference(_, _)
InsertByDifference(sorted, c) ==
  IF sorted = <<>> THEN <<c>>
  ELSE IF Head(sorted).difference >= c.difference
    THEN <<Head(sorted)>> \o InsertByDifference(Tail(sorted), c)
  ELSE <<c>> \o sorted

SortByDifference_Unsorted(sorted, comparisons) == sorted \o comparisons

RECURSIVE SortByDifference(_, _)
SortByDifference(sorted, comparisons) ==
  IF comparisons = <<>> THEN sorted
  ELSE SortByDifference(InsertByDifference(sorted, Head(comparisons)), Tail(comparisons))

\* [c for c in comparisons if c["potential_discrimination"]]
IsFlagged(c) == c.potential_discrimination

\* the analysis of a non-empty profile_scores
DiscriminationAnalysis(ps, t) ==
  LET max_profile == MaxProfile(ps)
      min_profile == MinProfile(ps)
      score_difference == Minus(max_profile.mean, min_profile.mean)
      pairs == PairsFrom(1, 2, Len(ps))
      comparisons ==
        SortByDifference(<<>>,
          [k \in 1..Len(pairs) |-> Comparison(ps[pairs[k][1]], ps[pairs[k][2]], t)])
  IN [threshold |-> t,
      max_difference |-> Round2(score_difference),
      highest_scoring_profile |->
        [profile_id |-> max_profile.profile_id,
         description |-> max_profile.description,
         mean_score |-> Round2(max_profile.mean)],
      lowest_scoring_profile |->
        [profile_id |-> min_profile.profile_id,
         description |-> min_profile.description,
         mean_score |-> Round2(min_profile.mean)],
      potential_discrimination_detected |-> Exceeds(score_difference, t),
      all_comparisons |-> comparisons,
      flagged_comparisons |-> SelectSeq(comparisons, IsFlagged)]

\* {"error": "No valid scores to analyze"}
ErrorOutcome == [error |-> "No valid scores to analyze"]

DetectDiscrimination(results, t) ==
  LET agg == AggregateByProfile(results)
  IN IF agg.raised THEN agg
     ELSE LET ps == ProfileScores(agg.value)
          IN IF NothingToAnalyze(ps) THEN Returned(ErrorOutcome)
             ELSE Returned(DiscriminationAnalysis(ps, t))

\* ------------------------------------------------------ generate_report
\* x[1]["scores"].get("total_score", {}).get("mean", 0)
SummarySortKey(data) ==
  IF HasTotalScore(data) THEN TotalScoreMean(data) ELSE [num |-> 0, den |-> 1]

\* sorted(aggregated.items(), key=..., reverse=True): stable, largest first
RECURSIVE InsertByMean(_, _)
InsertByMean(sorted, data) ==
  IF sorted = <<>> THEN <<data>>
  ELSE IF ~Less(SummarySortKey(Head(sorted)), SummarySortKey(data))
    THEN <<Head(sorted)>> \o InsertByMean(Tail(sorted), data)
  ELSE <<data>> \o sorted

RECURSIVE SortByMean(_, _)
SortByMean(sorted, aggregates) ==
  IF aggregates = <<>> THEN sorted
  ELSE SortByMean(InsertByMean(sorted, Head(aggregates)), Tail(aggregates))

\* the summary lines of one profile
ProfileSummary(data) ==
  [profile_id |-> data.profile_id,
   description |-> data.description,
   successful |-> <<data.success_count, data.total_iterations>>,
   has_total_score |-> HasTotalScore(data)]

\* The report, by section: the metadata, the profile summaries, the
\* discrimination analysis. Reading a field of an analysis that is the error
\* outcome raises KeyError.
GenerateReport(data) ==
  LET agg == AggregateByProfile(data.results)
      det == DetectDiscrimination(data.results, DefaultThreshold)
  IN IF agg.raised THEN agg
     ELSE IF det.raised THEN det
     ELSE IF "threshold" \notin DOMAIN det.value THEN Raised("KeyError")
     ELSE LET sorted_profiles == SortByMean(<<>>, agg.value)
          IN Returned(
               [metadata |-> data.metadata,
                summaries |-> [k \in 1..Len(sorted_profiles) |->
                                 ProfileSummary(sorted_profiles[k])],
                threshold |-> det.value.threshold,
                max_difference |-> det.value.max_difference,
                highest_scoring_profile |-> det.value.highest_scoring_profile,
                lowest_scoring_profile |-> det.value.lowest_scoring_profile,
                detected |-> det.value.potential_discrimination_detected,
                flagged_comparisons |-> det.value.flagged_comparisons])

\* ATSAnalyzer(results_data=experiment_data).aggregate_by_profile() on the
\* data a run returned
Aggregate_ConsumesResults ==
  /\ pc = "done"
  /\ IsPending(aggregated)
  /\ aggregated' = AggregateByProfile(experiment_data.results)
  /\ experiment_data' = [experiment_data EXCEPT !.results = <<>>]
  /\ UNCHANGED <<pc, idx, iteration, semaphore, task, result, dispatcher,
                 profile_results, all_results>>
  /\ UNCHANGED <<config_vars, eval_vars, analysis_vars, overtaken>>

Aggregate ==
  /\ pc = "done"
  /\ IsPending(aggregated)
  /\ aggregated' = AggregateByProfile(experiment_data.results)
  /\ UNCHANGED <<pc, idx, iteration, semaphore, task, result, dispatcher,
                 profile_results, all_results, experiment_data>>
  /\ UNCHANGED <<config_vars, eval_vars, analysis_vars, overtaken>>

\* a further aggregate_by_profile() on the same analyzer, as
\* detect_discrimination and generate_report each make one
AggregateAgain ==
  /\ pc = "done"
  /\ ~IsPending(aggregated)
  /\ IsPending(aggregated_again)
  /\ aggregated_again' = AggregateByProfile(experiment_data.results)
  /\ UNCHANGED <<threshold, discrimination, report, sync_data>>
  /\ UNCHANGED <<config_vars, runner_vars, eval_vars>>

Next ==
  \/ StartProfileAsync
  \/ \E i \in Range(iterations_per_config) : Acquire(i)
  \/ \E i \in Range(iterations_per_config), c \in ServiceCalls : Complete(i, c)
  \/ GatherRaises
  \/ CancelRemaining
  \/ GatherReturns
  \/ FinishAsync
  \/ StartProfileSync
  \/ \E c \in ServiceCalls : SyncIteration(c)
  \/ SyncProfileReturns
  \/ FinishSync
  \/ Aggregate
  \/ AggregateAgain

Spec == Init /\ [][Next]_vars

\* ------------------------------- asynchronous runs under fair scheduling
\* The tasks of a run, by subject and index
Tasks == {<<p, i>> : p \in ProfileIndexes, i \in Range(iterations_per_config)}

\* An asynchronous run in which at most one external call never returns
FairInit ==
  /\ ConfigInit
  /\ async_mode
  /\ stalled \in {NoTask} \cup Tasks
  /\ service = NoService
  /\ RunnerInit
  /\ call = NoCall
  /\ outcome = NoResult
  /\ outcome_sync = NoResult
  /\ json_text = NoResult
  /\ threshold = DefaultThreshold
  /\ AnalysisInit

FairNext ==
  \/ StartProfileAsync
  \/ \E i \in Range(iterations_per_config) : Acquire(i)
  \/ \E i \in Range(iterations_per_config), c \in ServiceCalls : Complete(i, c)
  \/ GatherRaises
  \/ CancelRemaining
  \/ GatherReturns
  \/ FinishAsync

\* The event loop runs every callback that is ready: a coroutine that can
\* take a step takes it, a waiter of the semaphore is woken when a slot is
\* free, and every external call other than the stalled one ends.
Fairness ==
  /\ WF_vars(StartProfileAsync)
  /\ WF_vars(\E i \in Range(iterations_per_config) : Acquire(i))
  /\ WF_vars(\E i \in Range(iterations_per_config), c \in ServiceCalls : Complete(i, c))
  /\ WF_vars(GatherRaises)
  /\ WF_vars(CancelRemaining)
  /\ WF_vars(GatherReturns)
  /\ WF_vars(FinishAsync)

FairSpec == FairInit /\ [][FairNext]_vars /\ Fairness

\* ------------------------------------------- the analyzer on stored data
\* What the total_score of an evaluation can be
ScoreValues == {70, 85, 90}

\* The scores of a success outcome: a mapping with a total_score, one
\* whose total_score is null beside another score, one whose total_score is
\* true
ScoreObjects ==
  {JsonObject(<< <<"total_score", JsonNumber(v)>> >>) : v \in ScoreValues}
    \cup {JsonObject(<< <<"total_score", JsonNull>>, <<"skills_score", JsonNumber(70)>> >>),
          JsonObject(<< <<"total_score", JsonBoolean(TRUE)>> >>)}

\* What an evaluation can end with: a success with its scores, or a failure
OutcomeKinds ==
  {[success |-> TRUE, scores |-> scores] : scores \in ScoreObjects}
    \cup {[success |-> FALSE, error |-> "ConnectionError"]}

\* The outcome run_single_evaluation_async returns for iteration i of
\* subject p when the evaluation ends with kind
Outcome(p, i, kind) ==
  IF kind.success
    THEN [success |-> TRUE,
          scores |-> kind.scores,
          profile_id |-> ProfileInfo(p).id,
          profile_description |-> ProfileInfo(p).description,
          iteration |-> IterationArg(i),
          raw_response |-> <<"{", "T", "}">>]
    ELSE [success |-> FALSE,
          error |-> kind.error,
          profile_id |-> ProfileInfo(p).id,
          profile_description |-> ProfileInfo(p).description,
          iteration |-> IterationArg(i)]

\* The results lists a run over profiles with iterations_per_config
\* attempts each can return: subject by subject, iteration by iteration
ResultLists ==
  LET n == iterations_per_config
      total == Len(profiles) * n
  IN {[k \in 1..total |->
         Outcome(profiles[((k - 1) \div n) + 1], (k - 1) % n, kinds[k])] :
        kinds \in [1..total -> OutcomeKinds]}

Thresholds == {DefaultThreshold, 3 * DefaultThreshold}

\* analyze_results(results_file): an analyzer on the stored data of a
\* finished run; no runner is at work in this process
StoredData(results) ==
  [returned |-> TRUE,
   metadata |-> [iterations_per_config |-> iterations_per_config,
                 total_profiles |-> Len(profiles),
                 total_evaluations |-> Len(results)],
   results |-> results]

AnalyzerInit ==
  /\ ConfigInit
  /\ async_mode
  /\ ~verbose
  /\ max_concurrent = 1
  /\ stalled = NoTask
  /\ service = NoService
  /\ pc = "done"
  /\ idx = 1
  /\ iteration = 0
  /\ semaphore = 0
  /\ task = [p \in ProfileIndexes |-> [i \in Range(iterations_per_config) |-> "notcreated"]]
  /\ result = [p \in ProfileIndexes |-> [i \in Range(iterations_per_config) |-> NoResult]]
  /\ dispatcher = [p \in ProfileIndexes |-> "idle"]
  /\ profile_results = [p \in ProfileIndexes |-> <<>>]
  /\ all_results = <<>>
  /\ experiment_data \in {StoredData(results) : results \in ResultLists}
  /\ aggregated = NoResult
  /\ overtaken = [p \in ProfileIndexes |-> FALSE]
  /\ call = NoCall
  /\ outcome = NoResult
  /\ outcome_sync = NoResult
  /\ json_text = NoResult
  /\ threshold \in Thresholds
  /\ AnalysisInit

\* analyzer.detect_discrimination(threshold)
Detect ==
  /\ pc = "done"
  /\ IsPending(discrimination)
  /\ discrimination' = DetectDiscrimination(experiment_data.results, threshold)
  /\ UNCHANGED <<aggregated_again, threshold, report, sync_data>>
  /\ UNCHANGED <<config_vars, runner_vars, eval_vars>>

\* analyzer.generate_report()
Report ==
  /\ pc = "done"
  /\ IsPending(report)
  /\ report' = GenerateReport(experiment_data)
  /\ UNCHANGED <<aggregated_again, threshold, discrimination, sync_data>>
  /\ UNCHANGED <<config_vars, runner_vars, eval_vars>>

\* One analysis session: the aggregates, the analysis for the threshold, the
\* aggregates once more, the report. No operation assigns to the stored
\* data, so another order of the calls gives each the same input.
AnalyzerNext ==
  \/ Aggregate
  \/ ~IsPending(aggregated) /\ Detect
  \/ ~IsPending(discrimination) /\ AggregateAgain
  \/ ~IsPending(aggregated_again) /\ Report

AnalyzerSpec == AnalyzerInit /\ [][AnalyzerNext]_vars

\* ------------------- the same experiment run synchronously, then concurrently
\* The external service answers each (subject, iteration) attempt one way
Services == [Tasks -> ServiceCalls]

Answer(p, i) == service[<<p, i>>]

EquivInit ==
  /\ ConfigInit
  /\ ~async_mode
  /\ stalled = NoTask
  /\ service \in Services
  /\ RunnerInit
  /\ call = NoCall
  /\ outcome = NoResult
  /\ outcome_sync = NoResult
  /\ json_text = NoResult
  /\ threshold = DefaultThreshold
  /\ AnalysisInit

\* run_all_experiments has ended, with its return value or with an
\* exception: the same ATSExperiment configuration is now run with
\* run_all_experiments_async against the same service
Rerun ==
  /\ ~async_mode
  /\ pc \in {"done", "raised"}
  /\ sync_data' = experiment_data
  /\ async_mode' = TRUE
  /\ pc' = "loop"
  /\ idx' = 1
  /\ iteration' = 0
  /\ dispatcher' = [p \in ProfileIndexes |-> "idle"]
  /\ profile_results' = [p \in ProfileIndexes |-> <<>>]
  /\ all_results' = <<>>
  /\ experiment_data' = NoData
  /\ UNCHANGED <<iterations_per_config, max_concurrent, verbose, profiles, stalled, service>>
  /\ UNCHANGED <<semaphore, task, result, aggregated, overtaken>>
  /\ UNCHANGED <<aggregated_again, threshold, discrimination, report>>
  /\ UNCHANGED eval_vars

EquivNext ==
  \/ StartProfileSync
  \/ SyncIteration(Answer(idx, iteration))
  \/ SyncProfileReturns
  \/ FinishSync
  \/ Rerun
  \/ StartProfileAsync
  \/ \E i \in Range(iterations_per_config) : Acquire(i)
  \/ \E i \in Range(iterations_per_config) : Complete(i, Answer(idx, i))
  \/ GatherRaises
  \/ CancelRemaining
  \/ GatherReturns
  \/ FinishAsync

EquivSpec == EquivInit /\ [][EquivNext]_vars

\* ------------------------------------------- one evaluation, any response
\* What the external call of one evaluation can end with
EvalCalls ==
  {CallRaises(e) : e \in ServiceErrors} \cup {CallNoContent} \cup {CallText(t) : t \in Texts}

EvalInit ==
  /\ iterations_per_config = 1
  /\ max_concurrent = 1
  /\ verbose = FALSE
  /\ async_mode = TRUE
  /\ profiles = <<1>>
  /\ stalled = NoTask
  /\ service = NoService
  /\ RunnerInit
  /\ call \in EvalCalls
  /\ outcome = NoResult
  /\ outcome_sync = NoResult
  /\ json_text = NoResult
  /\ threshold = DefaultThreshold
  /\ AnalysisInit

EvaluateAsync ==
  /\ call.kind # "none"
  /\ IsPending(outcome)
  /\ outcome' = RunSingleEvaluationAsync(call, ProfileInfo(1), 1)
  /\ json_text' = JsonText(call)
  /\ UNCHANGED <<call, outcome_sync, config_vars, runner_vars, analysis_vars>>

EvaluateSync ==
  /\ call.kind # "none"
  /\ IsPending(outcome_sync)
  /\ outcome_sync' = RunSingleEvaluation(call, ProfileInfo(1))
  /\ UNCHANGED <<call, outcome, json_text, config_vars, runner_vars, analysis_vars>>

EvalNext == EvaluateAsync \/ EvaluateSync

EvalSpec == EvalInit /\ [][EvalNext]_vars

\* ================================================================ claims
Successes(rs) == {k \in 1..Len(rs) : rs[k].success}
Failures(rs) == {k \in 1..Len(rs) : ~rs[k].success}

\* C1: every dispatch of run_profile_experiment_async that has ended has
\* produced exactly iterations_per_config outcomes, one for each requested
\* iteration 1..N and none twice, whatever the service answered.
C1_DispatchYieldsNOutcomes ==
  \A p \in ProfileIndexes :
    async_mode /\ dispatcher[p] \in {"returned", "raised"} =>
      /\ Len(profile_results[p]) = iterations_per_config
      /\ \A n \in 1..iterations_per_config :
           Cardinality({k \in 1..Len(profile_results[p]) :
                          profile_results[p][k].iteration = n}) = 1

\* C2: at most max_concurrent evaluations of a subject have started their
\* external call and not finished it.
C2_ConcurrencyCap ==
  \A p \in ProfileIndexes : Cardinality(InFlight(p)) <= max_concurrent

C2_Witness ==
  \E p \in ProfileIndexes :
    /\ max_concurrent >= 2
    /\ Cardinality(InFlight(p)) = max_concurrent
    /\ Waiting(p) # {}

\* C3: in every aggregate that aggregate_by_profile returns,
\* success_count + error_count = total_iterations.
C3_CountsAddUp ==
  ~IsPending(aggregated) /\ ~aggregated.raised =>
    \A k \in 1..Len(aggregated.value) :
      aggregated.value[k].success_count + aggregated.value[k].error_count
        = aggregated.value[k].total_iterations

\* C4: run_single_evaluation_async returns an outcome record whatever the
\* external call did; when the call raised, answered without content or
\* answered a text whose payload does not parse, the record has
\* success = false and the error field is the stringified cause.
EvaluationCause(c) ==
  IF c.kind = "raise" THEN c.exc
  ELSE IF c.kind = "nocontent" THEN [type |-> "KeyError", msg |-> "KeyError"]
  ELSE [type |-> "JSONDecodeError", msg |-> "JSONDecodeError"]

EvaluationFails(c) ==
  c.kind # "text" \/ JsonLoads(ExtractJsonText(Strip(c.content))).raised

C4_NeverRaisesPastBoundary ==
  ~IsPending(outcome) =>
    /\ ~outcome.raised
    /\ outcome.value.success \in BOOLEAN
    /\ EvaluationFails(call) =>
         /\ outcome.value.success = FALSE
         /\ outcome.value.error = Str(EvaluationCause(call))

C4_Witness ==
  /\ ~IsPending(outcome)
  /\ call.kind = "text"
  /\ Contains(call.content, Fence)
  /\ ~outcome.raised
  /\ outcome.value.success = FALSE
  /\ outcome.value.error = "JSONDecodeError"

\* C5: no dispatch of run_all_experiments_async is ended by the exception
\* of one of its attempts, whatever the external calls answered.
C5_NoAttemptAbortsRun ==
  async_mode => \A p \in ProfileIndexes : dispatcher[p] # "raised"

\* C6: the dispatcher has returned only if every task of the subject has
\* produced its outcome, and a task waiting for a slot is never blocked by
\* tasks that have ended, failed or not: a slot is free or a call in flight.
C6_ReturnsAfterAllTasks ==
  \A p \in ProfileIndexes :
    /\ async_mode /\ dispatcher[p] = "returned" =>
         \A i \in DOMAIN task[p] :
           task[p][i] = "returned" /\ ~IsPending(result[p][i])
    /\ Waiting(p) # {} => semaphore > 0 \/ InFlight(p) # {}

C6_Witness ==
  \E p \in ProfileIndexes :
    /\ async_mode
    /\ dispatcher[p] = "returned"
    /\ iterations_per_config > max_concurrent
    /\ Failures(profile_results[p]) # {}
    /\ Successes(profile_results[p]) # {}

\* C7: a response with an opening fence (tagged or not) and no closing fence
\* after it always ends as a failure outcome, in the asynchronous and in the
\* synchronous evaluation.
UnbalancedFence(text) ==
  IF Contains(text, JsonFence)
    THEN FindFrom(text, Fence, Find(text, JsonFence) + 7) = -1
    ELSE Contains(text, Fence) /\ FindFrom(text, Fence, Find(text, Fence) + 3) = -1

C7_UnbalancedFenceFails ==
  call.kind = "text" /\ UnbalancedFence(Strip(call.content)) =>
    /\ ~IsPending(outcome) => ~outcome.raised /\ ~outcome.value.success
    /\ ~IsPending(outcome_sync) => ~outcome_sync.raised /\ ~outcome_sync.value.success

\* C8: the list run_profile_experiment_async returns holds at position k the
\* outcome of iteration k, for k = 1..N, also when the evaluations completed
\* in another order.
C8_IndexedByIteration ==
  \A p \in ProfileIndexes :
    async_mode /\ dispatcher[p] = "returned" =>
      /\ DOMAIN profile_results[p] = 1..iterations_per_config
      /\ \A k \in 1..iterations_per_config : profile_results[p][k].iteration = k

C8_Witness ==
  \E p \in ProfileIndexes :
    /\ async_mode
    /\ dispatcher[p] = "returned"
    /\ overtaken[p]
    /\ iterations_per_config >= 3

\* C9: no task of a later subject exists before every task of every earlier
\* subject has returned, and the results of the run are the per-subject
\* lists concatenated in the order of profiles.
RECURSIVE ConcatProfileResults(_)
ConcatProfileResults(n) ==
  IF n = 0 THEN <<>> ELSE ConcatProfileResults(n - 1) \o profile_results[n]

C9_SubjectsSequential ==
  async_mode =>
    /\ \A p, q \in ProfileIndexes :
         p < q /\ (\E i \in DOMAIN task[q] : task[q][i] # "notcreated") =>
           \A i \in DOMAIN task[p] : task[p][i] = "returned"
    /\ experiment_data.returned =>
         /\ experiment_data.results = ConcatProfileResults(Len(profiles))
         /\ \A j, k \in 1..Len(experiment_data.results) :
              j < k => experiment_data.results[j].profile_id
                         <= experiment_data.results[k].profile_id

C9_Witness ==
  /\ async_mode
  /\ experiment_data.returned
  /\ Len(profiles) >= 2
  /\ iterations_per_config >= 2
  /\ overtaken[1]

\* C10: in the data a run returns (asynchronous or synchronous),
\* total_evaluations is the length of results and is total_profiles times
\* iterations_per_config.
C10_TotalEvaluations ==
  experiment_data.returned =>
    /\ experiment_data.metadata.total_evaluations = Len(experiment_data.results)
    /\ experiment_data.metadata.total_evaluations =
         experiment_data.metadata.total_profiles
           * experiment_data.metadata.iterations_per_config
    /\ experiment_data.metadata.total_profiles = Len(profiles)
    /\ experiment_data.metadata.iterations_per_config = iterations_per_config

C10_Witness ==
  /\ experiment_data.returned
  /\ ~async_mode
  /\ experiment_data.metadata.total_profiles >= 2
  /\ experiment_data.metadata.iterations_per_config >= 2
  /\ Failures(experiment_data.results) # {}

\* C11: in every aggregate that aggregate_by_profile returns on the data of
\* a run, success_count plus error_count of each subject is
\* iterations_per_config.
C11_CountsCoverEveryAttempt ==
  (~IsPending(aggregated) /\ ~aggregated.raised) =>
    \A k \in 1..Len(aggregated.value) :
      aggregated.value[k].success_count + aggregated.value[k].error_count
        = iterations_per_config

C11_Witness ==
  /\ ~IsPending(aggregated)
  /\ ~aggregated.raised
  /\ Len(aggregated.value) >= 2
  /\ iterations_per_config >= 2
  /\ aggregated.value[1].success_count >= 1
  /\ aggregated.value[1].error_count >= 1
  /\ aggregated.value[2].success_count = 0

C19_SlotsConserved ==
  async_mode =>
    /\ \A p \in ProfileIndexes :
         /\ p # idx => InFlight(p) = {}
         /\ dispatcher[p] = "returned" => InFlight(p) = {}
         /\ (dispatcher[p] = "returned" /\ p + 1 = idx /\ pc \in {"loop", "done"}) =>
              semaphore = max_concurrent
    /\ (idx \in ProfileIndexes /\ dispatcher[idx] # "idle") =>
         /\ semaphore + Cardinality(InFlight(idx)) = max_concurrent
         /\ semaphore \in 0..max_concurrent

C19_Witness ==
  /\ async_mode
  /\ Len(profiles) >= 1
  /\ max_concurrent >= 2
  /\ iterations_per_config >= 3
  /\ dispatcher[1] = "returned"
  /\ semaphore = max_concurrent
  /\ Failures(profile_results[1]) # {}
  /\ Successes(profile_results[1]) # {}
  /\ overtaken[1]

\* C18: when every external call ends, every dispatch of
\* run_profile_experiment_async that has started eventually returns (so no
\* task of it waits for a slot forever).
DispatchIs(p, state) == IF p \in ProfileIndexes THEN dispatcher[p] = state ELSE FALSE

C18_DispatchEventuallyReturns ==
  \A p \in 1..MaxEvaluations :
    (stalled = NoTask /\ DispatchIs(p, "gathering")) ~> DispatchIs(p, "returned")

\* C20: when the external call of one task never returns and max_concurrent
\* is at least 2, every other task of the same subject eventually gets a
\* slot and ends with an outcome while the stalled task keeps its slot, and
\* at most max_concurrent - 1 of the other tasks are in flight at once.
StalledHoldsSlot ==
  IF stalled = NoTask THEN FALSE ELSE task[stalled[1]][stalled[2]] = "calling"

StalledDispatchStarted ==
  IF stalled = NoTask THEN FALSE
  ELSE max_concurrent >= 2 /\ dispatcher[stalled[1]] = "gathering"

OthersReturned ==
  IF stalled = NoTask THEN FALSE
  ELSE \A j \in DOMAIN task[stalled[1]] \ {stalled[2]} : task[stalled[1]][j] = "returned"

OthersInFlight ==
  IF stalled = NoTask THEN {} ELSE InFlight(stalled[1]) \ {stalled[2]}

C20_OthersCompleteBesideStalled ==
  /\ StalledDispatchStarted ~> (StalledHoldsSlot /\ OthersReturned)
  /\ [](StalledHoldsSlot => Cardinality(OthersInFlight) <= max_concurrent - 1)
  /\ [][StalledHoldsSlot => StalledHoldsSlot']_vars

\* ---- the analysis, stated on the stored results
\* the total_score values of the successes of subject p, in results order
IsTotalScore(m) == m[1] = "total_score" /\ IsNumeric(m[2])

SubjectValues(p) ==
  LET Usable(r) == /\ r.profile_id = p
                   /\ r.success
                   /\ r.scores.type = "object"
                   /\ SelectSeq(r.scores.members, IsTotalScore) # <<>>
      rs == SelectSeq(experiment_data.results, Usable)
  IN [k \in 1..Len(rs) |-> AsNumber(SelectSeq(rs[k].scores.members, IsTotalScore)[1][2])]

SubjectMean(p) == Mean(SubjectValues(p))

UsableSubjects == {p \in ProfileIndexes : SubjectValues(p) # <<>>}

AllFailed(p) ==
  /\ iterations_per_config >= 1
  /\ \A k \in 1..Len(experiment_data.results) :
       experiment_data.results[k].profile_id = p => ~experiment_data.results[k].success

Analysed == ~IsPending(discrimination) /\ ~discrimination.raised

IsErrorOutcome(d) == DOMAIN d = {"error"}

IsFullAnalysis(d) ==
  DOMAIN d = {"threshold", "max_difference", "highest_scoring_profile",
              "lowest_scoring_profile", "potential_discrimination_detected",
              "all_comparisons", "flagged_comparisons"}

\* C12: on aggregates that exist, detect_discrimination returns the error
\* outcome (the error message and nothing else) exactly when no subject has
\* a total_score value, a full analysis otherwise; beside an error outcome a
\* further aggregate_by_profile gives the aggregates the first one gave.
C12_ErrorIffNoTotalScore ==
  (~IsPending(aggregated) /\ ~aggregated.raised /\ ~IsPending(discrimination)) =>
    /\ ~discrimination.raised
    /\ IsErrorOutcome(discrimination.value) <=>
         \A k \in 1..Len(aggregated.value) :
           \A m \in 1..Len(aggregated.value[k].scores) :
             aggregated.value[k].scores[m].name # "total_score"
    /\ IsErrorOutcome(discrimination.value) <=> UsableSubjects = {}
    /\ ~IsErrorOutcome(discrimination.value) => IsFullAnalysis(discrimination.value)
    /\ (IsErrorOutcome(discrimination.value) /\ ~IsPending(aggregated_again)) =>
         aggregated_again = aggregated

C12_Witness ==
  /\ Analysed
  /\ IsErrorOutcome(discrimination.value)
  /\ ~IsPending(aggregated_again)
  /\ Len(aggregated.value) >= 2
  /\ aggregated.value[1].success_count >= 1
  /\ aggregated.value[1].scores # <<>>
  /\ aggregated.value[2].error_count >= 1

\* C13: when no outcome of the stored results carries a total_score,
\* generate_report returns a report: it does not end with an exception.
C13_ReportWithoutUsableScores ==
  (~IsPending(report) /\ UsableSubjects = {}) => ~report.raised

\* C14: in a full analysis the highest and lowest scoring subjects have the
\* largest and the smallest mean, max_difference is their (rounded) gap, and
\* potential_discrimination_detected holds exactly when two means differ by
\* more than the threshold, that is when the gap is strictly greater.
C14_GapStrictlyAboveThreshold ==
  (Analysed /\ UsableSubjects # {}) =>
    LET d == discrimination.value
        hi == d.highest_scoring_profile.profile_id
        lo == d.lowest_scoring_profile.profile_id
        highest == SubjectMean(hi)
        lowest == SubjectMean(lo)
        gap == Minus(highest, lowest)
    IN /\ hi \in UsableSubjects
       /\ lo \in UsableSubjects
       /\ \A p \in UsableSubjects :
            LET mean == SubjectMean(p)
            IN ~Less(highest, mean) /\ ~Less(mean, lowest)
       /\ d.max_difference = Round2(gap)
       /\ d.potential_discrimination_detected <=> gap.num > threshold * gap.den

C14_Witness ==
  /\ Analysed
  /\ Cardinality(UsableSubjects) >= 2
  /\ threshold > 0
  /\ ~discrimination.value.potential_discrimination_detected
  /\ LET hi == discrimination.value.highest_scoring_profile.profile_id
         lo == discrimination.value.lowest_scoring_profile.profile_id
         gap == Minus(SubjectMean(hi), SubjectMean(lo))
     IN gap.num = threshold * gap.den

\* C15: a full analysis over k subjects with a total_score has k(k-1)/2
\* comparisons, exactly one for every two distinct such subjects and none
\* with a subject compared to itself or without total_score; a comparison is
\* flagged exactly when the two means differ by more than the threshold, and
\* flagged_comparisons is the flagged entries of all_comparisons in order.
C15_OneComparisonPerPair ==
  (Analysed /\ UsableSubjects # {}) =>
    LET cs == discrimination.value.all_comparisons
        k == Cardinality(UsableSubjects)
    IN /\ 2 * Len(cs) = k * (k - 1)
       /\ \A n \in 1..Len(cs) :
            /\ cs[n].profile_a \in UsableSubjects
            /\ cs[n].profile_b \in UsableSubjects
            /\ cs[n].profile_a # cs[n].profile_b
            /\ LET diff == Abs(Minus(SubjectMean(cs[n].profile_a),
                                     SubjectMean(cs[n].profile_b)))
               IN cs[n].potential_discrimination <=> diff.num > threshold * diff.den
       /\ \A a, b \in UsableSubjects :
            a # b => Cardinality({n \in 1..Len(cs) :
                       {cs[n].profile_a, cs[n].profile_b} = {a, b}}) = 1
       /\ discrimination.value.flagged_comparisons = SelectSeq(cs, IsFlagged)

C15_Witness ==
  /\ Analysed
  /\ Cardinality(UsableSubjects) = 3
  /\ Len(profiles) = 4
  /\ Len(discrimination.value.all_comparisons) = 3
  /\ Len(discrimination.value.flagged_comparisons) = 2
  /\ ~discrimination.value.all_comparisons[3].potential_discrimination
  /\ discrimination.value.all_comparisons[3].difference = 100 * threshold

\* C16: a subject with attempts that all failed has one aggregate, with
\* success_count 0 and no score statistics, and is neither a side of a
\* comparison nor the highest or lowest scoring subject of the analysis.
C16_AllFailedSubject ==
  \A p \in ProfileIndexes :
    AllFailed(p) =>
      /\ (~IsPending(aggregated) /\ ~aggregated.raised) =>
           /\ Cardinality({k \in 1..Len(aggregated.value) :
                             aggregated.value[k].profile_id = p}) = 1
           /\ \A k \in 1..Len(aggregated.value) :
                aggregated.value[k].profile_id = p =>
                  /\ aggregated.value[k].success_count = 0
                  /\ aggregated.value[k].error_count = iterations_per_config
                  /\ aggregated.value[k].scores = <<>>
      /\ (Analysed /\ IsFullAnalysis(discrimination.value)) =>
           /\ discrimination.value.highest_scoring_profile.profile_id # p
           /\ discrimination.value.lowest_scoring_profile.profile_id # p
           /\ \A n \in 1..Len(discrimination.value.all_comparisons) :
                /\ discrimination.value.all_comparisons[n].profile_a # p
                /\ discrimination.value.all_comparisons[n].profile_b # p

C16_Witness ==
  /\ Len(profiles) = 3
  /\ AllFailed(1)
  /\ ~IsPending(aggregated)
  /\ Analysed
  /\ IsFullAnalysis(discrimination.value)
  /\ Len(discrimination.value.all_comparisons) = 1

\* C21: the text handed to json.loads is, for a stripped response with a
\* tagged fence and a fence after it, the (stripped) text between the first
\* tagged fence and the next fence, also when an untagged fence comes
\* earlier; else, with a fence and a fence after it, the text between the
\* first fence and the next one; without any fence, the whole response.
Occurs(t, sub, from) == \E i \in from..Len(t) : OccursAt(t, sub, i)

First(t, sub, from) ==
  CHOOSE i \in from..Len(t) :
    OccursAt(t, sub, i) /\ \A j \in from..(i - 1) : ~OccursAt(t, sub, j)

Closed(t, open) == Occurs(t, Fence, First(t, open, 0) + Len(open))

Between(t, open) ==
  LET a == First(t, open, 0) + Len(open)
      b == First(t, Fence, a)
  IN Strip(SubSeq(t, a + 1, b))

C21_PayloadPriority ==
  (call.kind = "text" /\ ~IsPending(json_text)) =>
    LET t == Strip(call.content)
    IN /\ ~json_text.raised
       /\ IF Occurs(t, JsonFence, 0)
            THEN Closed(t, JsonFence) => json_text.value = Between(t, JsonFence)
          ELSE IF Occurs(t, Fence, 0)
            THEN Closed(t, Fence) => json_text.value = Between(t, Fence)
          ELSE json_text.value = t

C21_Witness ==
  /\ call.kind = "text"
  /\ ~IsPending(json_text)
  /\ Occurs(call.content, JsonFence, 0)
  /\ Find(call.content, Fence) < Find(call.content, JsonFence)
  /\ json_text.value = <<"{", "T", "}">>
  /\ ~IsPending(outcome)
  /\ outcome.value.success

\* C22: the scores of every success outcome of an evaluation is a mapping.
C22_SuccessScoresIsMapping ==
  (~IsPending(outcome) /\ ~outcome.raised /\ outcome.value.success) =>
    outcome.value.scores.type = "object"

\* C23: every outcome of an evaluation whose external call returned a text
\* has a raw_response field, whether the parse succeeded or not.
C23_RawResponseKept ==
  (call.kind = "text" /\ ~IsPending(outcome) /\ ~outcome.raised) =>
    "raw_response" \in DOMAIN outcome.value

\* C24: in every aggregate the values of a score field are the values that
\* are numbers (not null, not a boolean) of that field in the successful
\* outcomes of the subject, in input order, and a field has statistics only
\* if it has such a value.
FieldNames == {"total_score", "skills_score"}

NumbersOf(p, name) ==
  LET Has(r) == /\ r.profile_id = p
                /\ r.success
                /\ \E n \in 1..Len(r.scores.members) :
                     r.scores.members[n][1] = name /\ r.scores.members[n][2].type = "number"
      IsField(m) == m[1] = name
      rs == SelectSeq(experiment_data.results, Has)
  IN [k \in 1..Len(rs) |-> SelectSeq(rs[k].scores.members, IsField)[1][2].value]

C24_ValuesAreTheNumbers ==
  (~IsPending(aggregated) /\ ~aggregated.raised) =>
    \A k \in 1..Len(aggregated.value) :
      LET agg == aggregated.value[k]
      IN /\ \A n \in 1..Len(agg.scores) :
              /\ agg.scores[n].name \in FieldNames
              /\ agg.scores[n].values # <<>>
              /\ agg.scores[n].values = NumbersOf(agg.profile_id, agg.scores[n].name)
         /\ \A name \in FieldNames :
              NumbersOf(agg.profile_id, name) # <<>> =>
                \E n \in 1..Len(agg.scores) : agg.scores[n].name = name

\* ---- the order in which the subjects first appear in the stored results
FirstAppearance(p) ==
  CHOOSE k \in 1..Len(experiment_data.results) :
    /\ experiment_data.results[k].profile_id = p
    /\ \A j \in 1..(k - 1) : experiment_data.results[j].profile_id # p

\* comparison c was generated before comparison d by the loops over the pairs
GeneratedBefore(c, d) ==
  \/ FirstAppearance(c.profile_a) < FirstAppearance(d.profile_a)
  \/ /\ c.profile_a = d.profile_a
     /\ FirstAppearance(c.profile_b) < FirstAppearance(d.profile_b)

SameMean(p, q) ==
  LET a == SubjectMean(p)
      b == SubjectMean(q)
  IN a.num * b.den = b.num * a.den

FullyAnalysed == Analysed /\ IsFullAnalysis(discrimination.value)

\* C25: all_comparisons is in descending order of difference, every entry
\* has its sides in the order of first appearance, and of two entries with
\* the same difference the one generated first comes first.
C25_SortedStable ==
  FullyAnalysed =>
    LET cs == discrimination.value.all_comparisons
    IN /\ \A n \in 1..Len(cs) :
            FirstAppearance(cs[n].profile_a) < FirstAppearance(cs[n].profile_b)
       /\ \A n, m \in 1..Len(cs) :
            n < m => /\ cs[n].difference >= cs[m].difference
                     /\ cs[n].difference = cs[m].difference => GeneratedBefore(cs[n], cs[m])

C25_Witness ==
  /\ FullyAnalysed
  /\ Len(discrimination.value.all_comparisons) = 3
  /\ LET cs == discrimination.value.all_comparisons
     IN /\ cs[1].difference = cs[2].difference
        /\ cs[2].difference > cs[3].difference
        /\ GeneratedBefore(cs[3], cs[2])

\* C26: the highest (lowest) scoring subject of an analysis is, among the
\* subjects of the largest (smallest) mean, the one that appears first in
\* the stored results, and the analysis made by generate_report on the same
\* data names the same two subjects.
C26_TiesToFirstAppearance ==
  FullyAnalysed =>
    LET hi == discrimination.value.highest_scoring_profile.profile_id
        lo == discrimination.value.lowest_scoring_profile.profile_id
        highest == SubjectMean(hi)
        lowest == SubjectMean(lo)
    IN /\ \A p \in UsableSubjects :
            LET mean == SubjectMean(p)
            IN /\ ~Less(highest, mean)
               /\ ~Less(mean, lowest)
               /\ ~Less(mean, highest) => FirstAppearance(hi) <= FirstAppearance(p)
               /\ ~Less(lowest, mean) => FirstAppearance(lo) <= FirstAppearance(p)
       /\ (~IsPending(report) /\ ~report.raised) =>
            /\ report.value.highest_scoring_profile
                 = discrimination.value.highest_scoring_profile
            /\ report.value.lowest_scoring_profile
                 = discrimination.value.lowest_scoring_profile

C26_Witness ==
  /\ FullyAnalysed
  /\ ~IsPending(report)
  /\ ~report.raised
  /\ LET hi == discrimination.value.highest_scoring_profile.profile_id
         lo == discrimination.value.lowest_scoring_profile.profile_id
     IN /\ hi # lo
        /\ ~SameMean(hi, lo)
        /\ \E p \in UsableSubjects \ {hi} : SameMean(p, hi)
        /\ \E p \in UsableSubjects \ {lo} : SameMean(p, lo)

\* C28: with a threshold that is not negative, an analysis has
\* potential_discrimination_detected exactly when flagged_comparisons is not
\* empty, and with two or more usable subjects max_difference is the
\* difference of the first entry of all_comparisons.
C28_FlagAgreesWithComparisons ==
  (FullyAnalysed /\ threshold >= 0) =>
    LET d == discrimination.value
    IN /\ d.potential_discrimination_detected <=> d.flagged_comparisons # <<>>
       /\ Cardinality(UsableSubjects) >= 2 =>
            d.max_difference = d.all_comparisons[1].difference

C28_Witness ==
  /\ FullyAnalysed
  /\ threshold >= 0
  /\ Cardinality(UsableSubjects) >= 3
  /\ discrimination.value.potential_discrimination_detected
  /\ LET cs == discrimination.value.all_comparisons
     IN /\ Len(discrimination.value.flagged_comparisons) < Len(cs)
        /\ GeneratedBefore(cs[Len(cs)], cs[1])
        /\ cs[1].difference > cs[2].difference

\* C27: when run_all_experiments has returned and run_all_experiments_async,
\* run for the same subjects, iteration count and service, has ended, the
\* asynchronous run has returned too and the two results lists agree position
\* by position on profile_id, iteration, success and scores or error.
Agree(r, q) ==
  /\ r.profile_id = q.profile_id
  /\ r.iteration = q.iteration
  /\ r.success = q.success
  /\ IF r.success THEN r.scores = q.scores ELSE r.error = q.error

C27_SyncAsyncAgree ==
  (sync_data.returned /\ async_mode /\ pc \in {"done", "raised"}) =>
    /\ pc = "done"
    /\ Len(experiment_data.results) = Len(sync_data.results)
    /\ \A k \in 1..Len(sync_data.results) :
         Agree(sync_data.results[k], experiment_data.results[k])

\* C29: aggregate_by_profile ends without an exception on the data of every
\* run that returned.
C29_AggregationNeverRaises ==
  ~IsPending(aggregated) => ~aggregated.raised

====
